---- MODULE Spec2Model ----
(***************************************************************************)
(* Model of the agentless poller of app/main.py: host registration in the  *)
(* hosts table, the run_forever / poll_once scheduling on the asyncio      *)
(* event loop, the SSH retry wrapper, payload parsing and the per-host     *)
(* commit transaction.                                                     *)
(***************************************************************************)
EXTENDS Integers, Sequences, FiniteSets, TLC

VARIABLES
  hosts,        \* AgentlessPoller.hosts: the list of Host objects built from the configuration
  interval,     \* AgentlessPoller.interval, in seconds
  hostsTable,   \* table hosts, in insertion order
  nextHostId,   \* AUTOINCREMENT counter of table hosts
  samples,      \* table samples, in insertion order
  disks,        \* table disks, in insertion order
  extras,       \* table extras, in insertion order
  now,          \* int(time.time())
  cycle,        \* number of fan-outs started so far (history variable)
  rf,           \* the run_forever tasks created by _startup
  tasks,        \* the poll_once tasks of each run_forever task's current gather
  ready,        \* the event loop's queue of ready callbacks
  current,      \* the callback the event loop is executing
  timers,       \* the run_forever tasks waiting in asyncio.sleep
  starts        \* number of process starts performed (registration runs)

vars == <<hosts, interval, hostsTable, nextHostId, samples, disks, extras,
          now, cycle, rf, tasks, ready, current, timers, starts>>

-----------------------------------------------------------------------------
(* Bounds *)

MaxHosts == 2
MaxCycles == 2
MaxStarts == 2
\* The number of poll_once runs explored in one behaviour
MaxPolls == 4

-----------------------------------------------------------------------------
(* Python values: None and the values json.loads produces *)

None == [t |-> "null"]
Num(n) == [t |-> "num", v |-> n]
Str(s) == [t |-> "str", v |-> s]
List(l) == [t |-> "list", v |-> l]
Obj(o) == [t |-> "obj", v |-> o]

\* The empty dict; its key set is empty
EmptyDict == Obj(<<>>)

Ok(v) == [ok |-> TRUE, v |-> v]
Raise(e) == [ok |-> FALSE, exc |-> e]

\* Numeric literals among the strings of the model: what float()/int() accept
NumericStrings == ("100" :> 100) @@ ("7" :> 7)

\* float(x) / int(x) on a parsed JSON value
Coerce(x) ==
  CASE x.t = "num" -> Ok(x)
    [] x.t = "str" -> IF x.v \in DOMAIN NumericStrings
                        THEN Ok(Num(NumericStrings[x.v]))
                        ELSE Raise("ValueError")
    [] OTHER -> Raise("TypeError")

\* Python truthiness of a value
Truthy(x) ==
  CASE x.t = "null" -> FALSE
    [] x.t = "num" -> x.v # 0
    [] x.t = "str" -> x.v # ""
    [] x.t = "list" -> Len(x.v) > 0
    [] x.t = "obj" -> DOMAIN x.v # {}
    [] OTHER -> TRUE

\* dict.get, were the default ignored and None returned for a missing key
GetNone(o, key, default) == IF key \in DOMAIN o.v THEN o.v[key] ELSE None

\* dict.get(key, default); the caller has checked that o is a dict
Get(o, key, default) == IF key \in DOMAIN o.v THEN o.v[key] ELSE default

-----------------------------------------------------------------------------
(* What the remote script can print on standard output (LINUX_SHELL, the   *)
(* JSON contract) and the values json.loads gives for these texts.         *)

OutFull == "{\"uptime_seconds\": \"100\", \"cpu_percent\": 12, \"mem_total_bytes\": 8, \"mem_available_bytes\": 4, \"disks\": [{\"device\": \"sda\", \"size_bytes\": 100, \"free_bytes\": 40, \"used_percent\": 60, \"mount\": \"/\"}], \"extras\": {\"net\": {\"total_rx_kbps\": 1, \"total_tx_kbps\": 2}}}"
OutEmptyObject == "{}"
OutArray == "[]"
OutBadMem == "{\"cpu_percent\": 12, \"mem_total_bytes\": \"n/a\", \"disks\": [], \"extras\": {}}"
OutBadDisk == "{\"cpu_percent\": 12, \"disks\": [{\"device\": \"sda\", \"used_percent\": 60}, {\"device\": \"sdb\", \"used_percent\": \"-\"}], \"extras\": {}}"
OutNullExtras == "{\"cpu_percent\": 12, \"mem_total_bytes\": 8, \"disks\": [{\"device\": \"sda\", \"used_percent\": 60}], \"extras\": null}"
OutRxOnly == "{\"mem_total_bytes\": 8, \"extras\": {\"net\": {\"total_rx_kbps\": 1}}}"
OutEmptyNet == "{\"cpu_percent\": 12, \"extras\": {\"net\": {}}}"
OutNoJson == "df: command not found"

DiskSda == Obj([device |-> Str("sda"), size_bytes |-> Num(100), free_bytes |-> Num(40),
                used_percent |-> Num(60), mount |-> Str("/")])
DiskShort == Obj([device |-> Str("sda"), used_percent |-> Num(60)])
DiskDash == Obj([device |-> Str("sdb"), used_percent |-> Str("-")])
NetFull == Obj([total_rx_kbps |-> Num(1), total_tx_kbps |-> Num(2)])
NetRxOnly == Obj([total_rx_kbps |-> Num(1)])

\* The JSON documents among the texts of the model, and their values
JsonDocuments ==
  (OutFull :> Obj([uptime_seconds |-> Str("100"), cpu_percent |-> Num(12),
                   mem_total_bytes |-> Num(8), mem_available_bytes |-> Num(4),
                   disks |-> List(<<DiskSda>>), extras |-> Obj([net |-> NetFull])]))
  @@ (OutEmptyObject :> EmptyDict)
  @@ (OutArray :> List(<<>>))
  @@ (OutBadMem :> Obj([cpu_percent |-> Num(12), mem_total_bytes |-> Str("n/a"),
                        disks |-> List(<<>>), extras |-> EmptyDict]))
  @@ (OutBadDisk :> Obj([cpu_percent |-> Num(12), disks |-> List(<<DiskShort, DiskDash>>),
                         extras |-> EmptyDict]))
  @@ (OutNullExtras :> Obj([cpu_percent |-> Num(12), mem_total_bytes |-> Num(8),
                            disks |-> List(<<DiskShort>>), extras |-> None]))
  @@ (OutRxOnly :> Obj([mem_total_bytes |-> Num(8), extras |-> Obj([net |-> NetRxOnly])]))
  @@ (OutEmptyNet :> Obj([cpu_percent |-> Num(12), extras |-> Obj([net |-> EmptyDict])]))
  @@ ("{\"net\": {}}" :> Obj([net |-> EmptyDict]))
  @@ ("{\"net\": {\"total_rx_kbps\": 1, \"total_tx_kbps\": 2}}" :> Obj([net |-> NetFull]))
  @@ ("{\"net\": {\"total_rx_kbps\": 1}}" :> Obj([net |-> NetRxOnly]))

\* json.loads(text)
json_loads(text) ==
  IF text \in DOMAIN JsonDocuments THEN Ok(JsonDocuments[text]) ELSE Raise("JSONDecodeError")

\* json.dumps(value): items separated by ", ", key and value by ": "
RECURSIVE json_dumps(_)
RECURSIVE DumpItems(_, _)
RECURSIVE DumpElems(_)
DumpItems(o, keys) ==
  IF keys = {} THEN ""
  ELSE LET k == CHOOSE x \in keys : TRUE
           rest == keys \ {k}
           item == "\"" \o k \o "\": " \o json_dumps(o[k])
       IN IF rest = {} THEN item ELSE item \o ", " \o DumpItems(o, rest)
DumpElems(l) ==
  IF Len(l) = 0 THEN ""
  ELSE IF Len(l) = 1 THEN json_dumps(l[1])
  ELSE json_dumps(l[1]) \o ", " \o DumpElems(Tail(l))
json_dumps(x) ==
  CASE x.t = "null" -> "null"
    [] x.t = "num" -> ToString(x.v)
    [] x.t = "str" -> "\"" \o x.v \o "\""
    [] x.t = "list" -> "[" \o DumpElems(x.v) \o "]"
    [] x.t = "obj" -> "{" \o DumpItems(x.v, DOMAIN x.v) \o "}"

\* What one run of the remote script can print
RawOutputs == {OutFull, OutEmptyObject, OutArray, OutBadMem, OutBadDisk,
               OutNullExtras, OutRxOnly, OutEmptyNet, OutNoJson}
\* The part of RawOutputs explored for fleets of several hosts, for the retry of an
\* attempt, and for the hosts that differ from web-1 by name and address only
BasicOutputs == {OutFull, OutBadDisk}
Outputs(hs, att) ==
  IF Len(hs) = 1 /\ hs[1].name = "web-1" /\ att = 0 THEN RawOutputs ELSE BasicOutputs


-----------------------------------------------------------------------------
(* Configuration and host registration (AgentlessPoller.__init__)          *)

\* The host entries of the configuration file: ssh / winrm tell whether the block is present
ConfigEntries ==
  { [name |-> "web-1", ip |-> "10.0.0.1", os |-> "linux", ssh |-> TRUE, winrm |-> FALSE],
    [name |-> "web-2", ip |-> "10.0.0.5", os |-> "linux", ssh |-> TRUE, winrm |-> FALSE],
    [name |-> "db-1", ip |-> "10.0.0.2", os |-> "linux", ssh |-> FALSE, winrm |-> FALSE],
    [name |-> "win-1", ip |-> "10.0.0.3", os |-> "windows", ssh |-> FALSE, winrm |-> TRUE],
    [name |-> "win-2", ip |-> "10.0.0.4", os |-> "windows", ssh |-> FALSE, winrm |-> FALSE] }

\* The entries of repeated starts: two names, each also with another address and os
RestartEntries ==
  { [name |-> "web-1", ip |-> "10.0.0.1", os |-> "linux", ssh |-> TRUE, winrm |-> FALSE],
    [name |-> "web-1", ip |-> "10.0.0.9", os |-> "windows", ssh |-> FALSE, winrm |-> TRUE],
    [name |-> "db-1", ip |-> "10.0.0.2", os |-> "linux", ssh |-> FALSE, winrm |-> FALSE],
    [name |-> "db-1", ip |-> "10.0.0.9", os |-> "linux", ssh |-> TRUE, winrm |-> FALSE] }

SeqsUpTo(S, n) == UNION { [1..k -> S] : k \in 0..n }

\* The configurations the poller is started with
Configs == SeqsUpTo(ConfigEntries, MaxHosts)
\* The configurations of repeated process starts
RestartConfigs == SeqsUpTo(RestartEntries, MaxHosts)

\* Host(name, ip, os, ssh, winrm): a profile is kept only when it matches the os
BuildHost(h) ==
  [name |-> h.name, ip |-> h.ip, os |-> h.os,
   ssh |-> (h.os = "linux" /\ h.ssh),
   winrm |-> (h.os = "windows" /\ h.winrm)]

BuildHosts(cfg) == [k \in 1..Len(cfg) |-> BuildHost(cfg[k])]

\* INSERT INTO hosts without the OR IGNORE clause, were the name not UNIQUE
InsertAlways(db, h) ==
  [rows |-> Append(db.rows, [id |-> db.next, name |-> h.name, ip |-> h.ip, os |-> h.os]),
   next |-> db.next + 1]

\* INSERT OR IGNORE INTO hosts(name, ip, os): name is UNIQUE, id is AUTOINCREMENT
InsertOrIgnore(db, h) ==
  IF \E k \in 1..Len(db.rows) : db.rows[k].name = h.name
    THEN db
    ELSE [rows |-> Append(db.rows, [id |-> db.next, name |-> h.name, ip |-> h.ip, os |-> h.os]),
          next |-> db.next + 1]

\* The registration loop of __init__, one transaction
RECURSIVE RegisterHosts(_, _)
RegisterHosts(db, hs) ==
  IF Len(hs) = 0 THEN db ELSE RegisterHosts(InsertOrIgnore(db, Head(hs)), Tail(hs))

-----------------------------------------------------------------------------
(* poll_once: locals, payload extraction, commit transaction               *)

\* The locals of poll_once, were the metrics initialised to zero
InitialLocalsZero(t) ==
  [ts |-> t, cpu |-> Num(0), mem_total |-> Num(0), mem_avail |-> Num(0), uptime |-> Num(0),
   net_rx |-> Num(0), net_tx |-> Num(0), disks |-> List(<<>>), extras |-> None, extras_payload |-> None,
   latency |-> None]

\* Lines 339-343: the locals of poll_once before the probe
InitialLocals(t) ==
  [ts |-> t, cpu |-> None, mem_total |-> None, mem_avail |-> None, uptime |-> None,
   net_rx |-> None, net_tx |-> None, disks |-> List(<<>>), extras |-> None, extras_payload |-> None,
   latency |-> None]

Parsed(L, e) == [L |-> L, exc |-> e]

\* Lines 350-362: json.loads and the extraction of the fields, in statement order;
\* an exception leaves the locals assigned so far
ParsePayload(raw, L) ==
  LET r == json_loads(raw)
      data == r.v
      c1 == Coerce(Get(data, "cpu_percent", Num(0)))
      c2 == Coerce(Get(data, "mem_total_bytes", Num(0)))
      c3 == Coerce(Get(data, "mem_available_bytes", Num(0)))
      c4 == Coerce(Get(data, "uptime_seconds", Num(0)))
      L1 == [L EXCEPT !.cpu = c1.v]
      L2 == [L1 EXCEPT !.mem_total = c2.v]
      L3 == [L2 EXCEPT !.mem_avail = c3.v]
      L4 == [L3 EXCEPT !.uptime = c4.v]
      L5 == [L4 EXCEPT !.disks = Get(data, "disks", List(<<>>))]
      ex == Get(data, "extras", EmptyDict)
      L5x == [L5 EXCEPT !.extras = ex]
      net == Get(ex, "net", EmptyDict)
      rx == Coerce(Get(net, "total_rx_kbps", Num(0)))
      tx == Coerce(Get(net, "total_tx_kbps", Num(0)))
      L6 == [L5x EXCEPT !.net_rx = IF Truthy(net) THEN rx.v ELSE None]
      L7 == [L6 EXCEPT !.net_tx = IF Truthy(net) THEN tx.v ELSE None]
      L8 == [L7 EXCEPT !.extras_payload = Str(json_dumps(ex))]
  IN IF ~r.ok THEN Parsed(L, r.exc)
     ELSE IF data.t # "obj" THEN Parsed(L, "AttributeError")
     ELSE IF ~c1.ok THEN Parsed(L, c1.exc)
     ELSE IF ~c2.ok THEN Parsed(L1, c2.exc)
     ELSE IF ~c3.ok THEN Parsed(L2, c3.exc)
     ELSE IF ~c4.ok THEN Parsed(L3, c4.exc)
     ELSE IF ex.t # "obj" THEN Parsed(L5x, "AttributeError")
     ELSE IF Truthy(net) /\ net.t # "obj" THEN Parsed(L5x, "AttributeError")
     ELSE IF Truthy(net) /\ ~rx.ok THEN Parsed(L5x, rx.exc)
     ELSE IF Truthy(net) /\ ~tx.ok THEN Parsed(L6, tx.exc)
     ELSE Parsed(L8, "")

\* str(x)
PyStr(x) ==
  CASE x.t = "str" -> x.v
    [] x.t = "num" -> ToString(x.v)
    [] x.t = "null" -> "None"
    [] OTHER -> json_dumps(x)

\* Lines 381-388: the INSERT INTO disks of each entry, in order
\* The statements of a transaction stopped by exception e after inserting rows
Stopped(e, rows) == [ok |-> FALSE, exc |-> e, v |-> rows]

\* Lines 381-388: the INSERT INTO disks of each entry, in order; the result is the
\* rows inserted, all of them or those before the entry that raised
RECURSIVE DiskRows(_, _, _, _, _)
DiskRows(hid, ts, cyc, entries, firstId) ==
  IF Len(entries) = 0 THEN Ok(<<>>)
  ELSE LET d == Head(entries)
           upct == Coerce(Get(d, "used_percent", Num(0)))
           sz == Coerce(Get(d, "size_bytes", Num(0)))
           free == Coerce(Get(d, "free_bytes", Num(0)))
           rest == DiskRows(hid, ts, cyc, Tail(entries), firstId + 1)
           row == [id |-> firstId, host_id |-> hid, ts |-> ts,
                   device |-> PyStr(Get(d, "device", None)),
                   used_percent |-> upct.v, size_bytes |-> sz.v, free_bytes |-> free.v,
                   mount |-> PyStr(Get(d, "mount", Str(""))), cyc |-> cyc]
       IN IF d.t # "obj" THEN Stopped("AttributeError", <<>>)
          ELSE IF ~upct.ok THEN Stopped(upct.exc, <<>>)
          ELSE IF ~sz.ok THEN Stopped(sz.exc, <<>>)
          ELSE IF ~free.ok THEN Stopped(free.exc, <<>>)
          ELSE IF ~rest.ok THEN Stopped(rest.exc, <<row>> \o rest.v)
          ELSE Ok(<<row>> \o rest.v)

\* Lines 380-388: "if disks: for d in disks"
InsertDisks(hid, ts, cyc, dsk, firstId) ==
  IF ~Truthy(dsk) THEN Ok(<<>>)
  ELSE CASE dsk.t = "list" -> DiskRows(hid, ts, cyc, dsk.v, firstId)
         [] dsk.t = "num" -> Stopped("TypeError", <<>>)
         [] OTHER -> Stopped("AttributeError", <<>>)

\* SELECT id FROM hosts WHERE name=:n ... scalar_one()
HostIds(table, name) == { table[k].id : k \in { j \in 1..Len(table) : table[j].name = name } }

\* The row, were the latency recorded only with collected metrics
SampleRowLatencyOnSuccess(id, hid, L, cyc) ==
  [id |-> id, host_id |-> hid, ts |-> L.ts, cpu |-> L.cpu, mem_total |-> L.mem_total,
   mem_avail |-> L.mem_avail, uptime |-> L.uptime,
   latency_ms |-> IF L.cpu = None THEN None ELSE L.latency,
   net_rx_kbps |-> L.net_rx, net_tx_kbps |-> L.net_tx, cyc |-> cyc]

\* Lines 374-378: the row of samples built from the locals
SampleRow(id, hid, L, cyc) ==
  [id |-> id, host_id |-> hid, ts |-> L.ts, cpu |-> L.cpu, mem_total |-> L.mem_total,
   mem_avail |-> L.mem_avail, uptime |-> L.uptime, latency_ms |-> L.latency,
   net_rx_kbps |-> L.net_rx, net_tx_kbps |-> L.net_tx, cyc |-> cyc]

\* The exception leaves the "with" block, were the inserts made so far kept
KeepPartial(before, partial, e) == [ok |-> FALSE, exc |-> e, v |-> partial]

\* Line 372: the exception leaves "with self.engine.begin()", which rolls back
Rollback(before, partial, e) == [ok |-> FALSE, exc |-> e, v |-> before]

\* Lines 372-392: the transaction of one host; cyc is a history field telling the
\* cycle that wrote the row, and obj one telling the object line 362 serialized. The result is the content of the three tables after the
\* transaction, committed or rolled back by an exception.
CommitTransaction(store, host, L, cyc) ==
  LET before == [samples |-> store.samples, disks |-> store.disks, extras |-> store.extras]
      ids == HostIds(store.hosts, host.name)
      hid == CHOOSE x \in ids : TRUE
      drows == InsertDisks(hid, L.ts, cyc, L.disks, Len(store.disks) + 1)
      erows == IF Truthy(L.extras_payload)
                 THEN <<[id |-> Len(store.extras) + 1, host_id |-> hid, ts |-> L.ts,
                         payload |-> L.extras_payload.v, cyc |-> cyc, obj |-> L.extras]>>
                 ELSE <<>>
      withSample == Append(store.samples, SampleRow(Len(store.samples) + 1, hid, L, cyc))
  IN IF Cardinality(ids) # 1 THEN Rollback(before, before, "NoResultFound")
     ELSE IF ~drows.ok
       THEN Rollback(before, [before EXCEPT !.samples = withSample,
                                            !.disks = store.disks \o drows.v], drows.exc)
     ELSE Ok([samples |-> withSample,
              disks |-> store.disks \o drows.v,
              extras |-> store.extras \o erows])

-----------------------------------------------------------------------------
(* Network behaviour seen by one poll                                      *)

\* tcp_ping: elapsed milliseconds, or None on any connection error or timeout
PingMs == 3
tcp_ping_results == {None, Num(PingMs)}

\* What one execution of the body of SSHClient.run meets: connect() raising, or
\* the stdout / stderr texts of exec_command
AttemptOutcomes(hs, att) ==
  { [connect |-> "socket.timeout", out |-> "", err |-> ""],
    [connect |-> "", out |-> "", err |-> "Permission denied"] }
  \cup { [connect |-> "", out |-> o, err |-> ""] : o \in Outputs(hs, att) }

\* Lines 191-208: the body of SSHClient.run, one attempt
SSHClient_run_body(o) ==
  IF o.connect # "" THEN Raise(o.connect)
  ELSE IF o.err # "" /\ o.out = "" THEN Raise("RuntimeError")
  ELSE Ok(o.out)

\* stop_after_attempt(2)
StopAfterAttempt == 2
\* wait_fixed(1), seconds
WaitFixed == 1

\* What tenacity raises when the stop condition is met: reraise is not set, so a
\* RetryError that wraps the last attempt
RetryExhausted(lastExc) == [type |-> "RetryError", last_attempt |-> lastExc]

NoException == [type |-> "", last_attempt |-> ""]
Exception(type) == [type |-> type, last_attempt |-> ""]

-----------------------------------------------------------------------------
(* The asyncio event loop: run_forever tasks, poll_once tasks, gather      *)

\* _startup creates one run_forever task
NumDrivers == 1

\* The run_forever tasks, were the startup hook to create the task twice
DriversTwice == 1..(NumDrivers + 1)

\* The run_forever tasks
Drivers == 1..NumDrivers

Step(d, i) == [k |-> "step", d |-> d, i |-> i]     \* Task.__step of run_forever (i = 0) or of a poll_once task
Callback(d, i) == [k |-> "cb", d |-> d, i |-> i]   \* gather's _done_callback for child i
NoHandle == [k |-> "none", d |-> 0, i |-> 0]

NewTask(cyc) ==
  [pc |-> "pending", cyc |-> cyc, L |-> InitialLocals(0), att |-> 0,
   last_err |-> "", raw |-> "", e |-> NoException, probes |-> 0]

\* A finished task keeps its outcome, the exception it logged at line 370 and the
\* number of tcp_ping calls it made (a history field)
FinishedTask(t, outcome) ==
  [NewTask(t.cyc) EXCEPT !.pc = outcome, !.e = t.e, !.probes = t.probes]

\* asyncio.gather without awaiting the children: the outer future is born resolved
GatherNoJoin(n) == [nfuts |-> n, nfinished |-> 0, outer |-> "result"]

\* asyncio.gather(*coros): the outer future; with no children it is already resolved
Gather(n) == [nfuts |-> n, nfinished |-> 0, outer |-> IF n = 0 THEN "result" ELSE "pending"]

\* gather's _done_callback(fut), return_exceptions=False
DoneCallback(g, raised) ==
  LET n == g.nfinished + 1
  IN IF g.outer # "pending" THEN [g EXCEPT !.nfinished = n]
     ELSE IF raised THEN [g EXCEPT !.nfinished = n, !.outer = "exception"]
     ELSE IF n = g.nfuts THEN [g EXCEPT !.nfinished = n, !.outer = "result"]
     ELSE [g EXCEPT !.nfinished = n]

Live(t) == t.pc \notin {"done", "raised"}

db == [hosts |-> hostsTable, samples |-> samples, disks |-> disks, extras |-> extras]

dbVars == <<hostsTable, nextHostId, samples, disks, extras>>
cfgVars == <<hosts, interval, starts>>

\* The configured poll interval: POLL_INTERVAL_SECONDS or poll_interval_seconds, default 30;
\* a zero interval is explored for fleets of at most one host
DefaultInterval == 30
Intervals(hs) == IF Len(hs) <= 1 THEN {0, DefaultInterval} ELSE {DefaultInterval}

StartTime == 1

Init ==
  /\ \E cfg \in Configs : hosts = BuildHosts(cfg)
  /\ interval \in Intervals(hosts)
  /\ hostsTable = RegisterHosts([rows |-> <<>>, next |-> 1], hosts).rows
  /\ nextHostId = RegisterHosts([rows |-> <<>>, next |-> 1], hosts).next
  /\ samples = <<>> /\ disks = <<>> /\ extras = <<>>
  /\ now = StartTime
  /\ cycle = 0
  /\ rf = [d \in Drivers |-> [pc |-> "start", g |-> Gather(0)]]
  /\ tasks = [d \in Drivers |-> <<>>]
  /\ ready = [d \in Drivers |-> Step(d, 0)]
  /\ current = NoHandle
  /\ timers = {}
  /\ starts = 1

\* The loop takes the next ready callback
Scheduled(h) == current = NoHandle /\ Len(ready) > 0 /\ Head(ready) = h

\* "await asyncio.sleep(self.interval)": sleep(0) only yields to the loop
EnterSleep(d, g, queue) ==
  IF interval <= 0
    THEN /\ rf' = [rf EXCEPT ![d] = [pc |-> "woken", g |-> g]]
         /\ ready' = Append(queue, Step(d, 0))
         /\ timers' = timers
    ELSE /\ rf' = [rf EXCEPT ![d] = [pc |-> "sleep", g |-> g]]
         /\ ready' = queue
         /\ timers' = timers \cup {d}

\* The tasks scheduled in the reverse order of self.hosts
TaskQueueReversed(d, n) == [i \in 1..n |-> Step(d, n + 1 - i)]

\* Line 335: the generator creates the tasks, and schedules their first steps, in
\* the order of self.hosts
TaskQueue(d, n) == [i \in 1..n |-> Step(d, i)]

\* Line 335: one poll_once task per host, in the order of self.hosts, then await gather
FanOut(d) ==
  /\ Scheduled(Step(d, 0))
  /\ rf[d].pc \in {"start", "woken"}
  /\ cycle < MaxCycles
  /\ (cycle + 1) * Len(hosts) <= MaxPolls
  /\ cycle' = cycle + 1
  /\ tasks' = [tasks EXCEPT ![d] = [i \in 1..Len(hosts) |-> NewTask(cycle + 1)]]
  /\ LET g == Gather(Len(hosts))
         queue == Tail(ready) \o TaskQueue(d, Len(hosts))
     IN IF g.outer = "pending"
          THEN /\ rf' = [rf EXCEPT ![d] = [pc |-> "gather", g |-> g]]
               /\ ready' = queue
               /\ timers' = timers
          ELSE EnterSleep(d, g, queue)
  /\ UNCHANGED <<dbVars, cfgVars, now, current>>

\* Lines 335-336: run_forever resumes from the gather, with its result or its exception
Resume(d) ==
  /\ Scheduled(Step(d, 0))
  /\ rf[d].pc = "gather"
  /\ IF rf[d].g.outer = "exception"
       THEN /\ rf' = [rf EXCEPT ![d].pc = "failed"]
            /\ ready' = Tail(ready)
            /\ timers' = timers
       ELSE EnterSleep(d, rf[d].g, Tail(ready))
  /\ UNCHANGED <<dbVars, cfgVars, now, cycle, tasks, current>>

\* time.time() after a sleep of the given seconds: the wall clock advanced, or it was
\* set back meanwhile (to just before the start time); the adjustment is explored for fleets of
\* at most one host that sleep between their cycles
WallClockAfter(t, seconds, hs) ==
  IF Len(hs) <= 1 /\ seconds > 0 THEN {t + seconds, StartTime - 1} ELSE {t + seconds}

\* The timer of asyncio.sleep(interval) expires
TimerFire(d) ==
  /\ current = NoHandle
  /\ d \in timers
  /\ timers' = timers \ {d}
  /\ now' \in WallClockAfter(now, interval, hosts)
  /\ rf' = [rf EXCEPT ![d].pc = "woken"]
  /\ ready' = Append(ready, Step(d, 0))
  /\ UNCHANGED <<dbVars, cfgVars, cycle, tasks, current>>

\* gather's callback for a finished child
GatherCallback(d, i) ==
  /\ Scheduled(Callback(d, i))
  /\ LET g == DoneCallback(rf[d].g, tasks[d][i].pc = "raised")
     IN /\ rf' = [rf EXCEPT ![d].g = g]
        /\ ready' = IF rf[d].g.outer = "pending" /\ g.outer # "pending"
                      THEN Append(Tail(ready), Step(d, 0))
                      ELSE Tail(ready)
  /\ UNCHANGED <<dbVars, cfgVars, now, cycle, tasks, current, timers>>

\* The coroutine returns or raises: the task is done and its callback is scheduled
Finish(d, i, outcome) ==
  /\ tasks' = [tasks EXCEPT ![d][i] = FinishedTask(@, outcome)]
  /\ current' = NoHandle
  /\ ready' = Append(ready, Callback(d, i))

Running(d, i, pc) ==
  /\ i \in 1..Len(tasks[d])
  /\ current = Step(d, i)
  /\ tasks[d][i].pc = pc

\* Lines 339-343
PollStart(d, i) ==
  /\ i \in 1..Len(tasks[d])
  /\ Scheduled(Step(d, i))
  /\ tasks[d][i].pc = "pending"
  /\ current' = Step(d, i)
  /\ ready' = Tail(ready)
  /\ tasks' = [tasks EXCEPT ![d][i].pc = "probe", ![d][i].L = InitialLocals(now)]
  /\ UNCHANGED <<dbVars, cfgVars, now, cycle, rf, timers>>

\* The branch, were line 364 to test the os alone
BranchOnOsOnly(host) ==
  IF host.os = "linux" /\ host.ssh THEN "ssh"
  ELSE IF host.os = "windows" THEN "return"
  ELSE "commit"

\* Lines 347 and 364-366: remote execution, early return, or straight to the commit
Branch(host) ==
  IF host.os = "linux" /\ host.ssh THEN "ssh"
  ELSE IF host.os = "windows" /\ host.winrm THEN "return"
  ELSE "commit"

\* Lines 344-347 and 364-366: the probe, then the branch on the host's os and profile
Probe(d, i) ==
  /\ Running(d, i, "probe")
  /\ \E lat \in tcp_ping_results :
       LET t == [tasks[d][i] EXCEPT !.L.latency = lat, !.probes = @ + 1]
       IN IF Branch(hosts[i]) = "return"
            THEN /\ tasks' = [tasks EXCEPT ![d][i] = FinishedTask(t, "done")]
                 /\ current' = NoHandle
                 /\ ready' = Append(ready, Callback(d, i))
            ELSE /\ tasks' = [tasks EXCEPT ![d][i] = [t EXCEPT !.pc = Branch(hosts[i])]]
                 /\ UNCHANGED <<current, ready>>
  /\ UNCHANGED <<dbVars, cfgVars, now, cycle, rf, timers>>

\* Lines 189-208 and 349: one attempt of SSHClient.run under @retry
SshAttempt(d, i) ==
  /\ Running(d, i, "ssh")
  /\ \E o \in AttemptOutcomes(hosts, tasks[d][i].att) :
       LET t == tasks[d][i]
           r == SSHClient_run_body(o)
           n == t.att + 1
       IN tasks' = [tasks EXCEPT ![d][i] =
            IF r.ok THEN [t EXCEPT !.att = n, !.last_err = "", !.raw = r.v, !.pc = "parse"]
            ELSE IF n >= StopAfterAttempt
              THEN [t EXCEPT !.att = n, !.last_err = r.exc,
                             !.e = RetryExhausted(r.exc), !.pc = "commit"]
            ELSE [t EXCEPT !.att = n, !.last_err = r.exc, !.pc = "wait"]]
  /\ UNCHANGED <<dbVars, cfgVars, now, cycle, rf, ready, current, timers>>

\* wait_fixed(1): time.sleep between two attempts
RetryWait(d, i) ==
  /\ Running(d, i, "wait")
  /\ now' = now + WaitFixed
  /\ tasks' = [tasks EXCEPT ![d][i].pc = "ssh"]
  /\ UNCHANGED <<dbVars, cfgVars, cycle, rf, ready, current, timers>>

\* Lines 350-362, and 368-370 when a statement raises
Parse(d, i) ==
  /\ Running(d, i, "parse")
  /\ LET p == ParsePayload(tasks[d][i].raw, tasks[d][i].L)
     IN tasks' = [tasks EXCEPT ![d][i].L = p.L,
                               ![d][i].e = IF p.exc = "" THEN NoException ELSE Exception(p.exc),
                               ![d][i].pc = "commit"]
  /\ UNCHANGED <<dbVars, cfgVars, now, cycle, rf, ready, current, timers>>

\* Lines 372-392: the transaction commits, or rolls back and the exception leaves poll_once
Commit(d, i) ==
  /\ Running(d, i, "commit")
  /\ LET c == CommitTransaction(db, hosts[i], tasks[d][i].L, tasks[d][i].cyc)
     IN /\ samples' = c.v.samples
        /\ disks' = c.v.disks
        /\ extras' = c.v.extras
        /\ Finish(d, i, IF c.ok THEN "done" ELSE "raised")
  /\ UNCHANGED <<hostsTable, nextHostId, cfgVars, now, cycle, rf, timers>>

Next ==
  \/ \E d \in Drivers : FanOut(d)
  \/ \E d \in Drivers : Resume(d)
  \/ \E d \in Drivers : TimerFire(d)
  \/ \E d \in Drivers, i \in 1..MaxHosts + 1 : GatherCallback(d, i)
  \/ \E d \in Drivers, i \in 1..MaxHosts + 1 : PollStart(d, i)
  \/ \E d \in Drivers, i \in 1..MaxHosts + 1 : Probe(d, i)
  \/ \E d \in Drivers, i \in 1..MaxHosts + 1 : SshAttempt(d, i)
  \/ \E d \in Drivers, i \in 1..MaxHosts + 1 : RetryWait(d, i)
  \/ \E d \in Drivers, i \in 1..MaxHosts + 1 : Parse(d, i)
  \/ \E d \in Drivers, i \in 1..MaxHosts + 1 : Commit(d, i)

Spec == Init /\ [][Next]_vars

-----------------------------------------------------------------------------
(* Repeated process starts on the same database: init_db and the           *)
(* registration of AgentlessPoller.__init__                                *)

InitReg ==
  /\ hosts = <<>>
  /\ interval = DefaultInterval
  /\ hostsTable = <<>>
  /\ nextHostId = 1
  /\ samples = <<>> /\ disks = <<>> /\ extras = <<>>
  /\ now = StartTime
  /\ cycle = 0
  /\ rf = [d \in Drivers |-> [pc |-> "start", g |-> Gather(0)]]
  /\ tasks = [d \in Drivers |-> <<>>]
  /\ ready = [d \in Drivers |-> Step(d, 0)]
  /\ current = NoHandle
  /\ timers = {}
  /\ starts = 0

\* Lines 405-407: CREATE TABLE IF NOT EXISTS keeps the rows, then the poller is built
ProcessStart(cfg) ==
  /\ starts < MaxStarts
  /\ starts' = starts + 1
  /\ hosts' = BuildHosts(cfg)
  /\ LET reg == RegisterHosts([rows |-> hostsTable, next |-> nextHostId], BuildHosts(cfg))
     IN /\ hostsTable' = reg.rows
        /\ nextHostId' = reg.next
  /\ UNCHANGED <<interval, samples, disks, extras, now, cycle, rf, tasks, ready, current, timers>>

NextReg == \E cfg \in RestartConfigs : ProcessStart(cfg)

SpecReg == InitReg /\ [][NextReg]_vars

-----------------------------------------------------------------------------
(* Properties                                                              *)

TaskIds == { p \in Drivers \X (1..MaxHosts + 1) : p[2] <= Len(tasks[p[1]]) }
TaskOf(p) == tasks[p[1]][p[2]]

\* Every pipeline of cycle c has finished
CycleDone(c) == c <= cycle /\ \A p \in TaskIds : TaskOf(p).cyc = c => ~Live(TaskOf(p))

SamplesOf(hid, c) == { j \in 1..Len(samples) : samples[j].host_id = hid /\ samples[j].cyc = c }

NullMetrics(r) ==
  /\ r.cpu = None /\ r.mem_total = None /\ r.mem_avail = None /\ r.uptime = None
  /\ r.net_rx_kbps = None /\ r.net_tx_kbps = None

\* C1: for every registered host and every completed cycle, exactly one row of
\* samples exists for that host and that cycle.
C1_OneSamplePerHostPerCycle ==
  \A c \in 1..cycle : CycleDone(c) =>
    \A k \in 1..Len(hostsTable) : Cardinality(SamplesOf(hostsTable[k].id, c)) = 1

\* C2: no error of a host's pipeline leaves that host's poll_once: no poll_once
\* task ends with an exception, the gather never fails, run_forever is not aborted.
C2_NoErrorLeavesPollOnce ==
  /\ \A p \in TaskIds : TaskOf(p).pc # "raised"
  /\ \A d \in Drivers : rf[d].g.outer # "exception" /\ rf[d].pc # "failed"

\* C3: no host's pipeline is kept waiting by another host's in-flight network
\* operation or retry delay: while one host is in its retry delay, every other
\* pipeline of the cycle has been started.
C3_NoPipelineWaitsForAnother ==
  \A p \in TaskIds, q \in TaskIds :
    (p # q /\ TaskOf(p).pc = "wait") => TaskOf(q).pc # "pending"

\* C4: when the remote execution of a Linux host fails on every attempt, the
\* commit step of its poll_once appends one samples row for the host and the
\* cycle, with a ts and with every metric field null, and poll_once returns.
C4_ExhaustedRetriesCommitNullSample ==
  [][\A p \in TaskIds :
       (/\ current = Step(p[1], p[2])
        /\ TaskOf(p).pc = "commit"
        /\ TaskOf(p).e.type = "RetryError"
        /\ tasks'[p[1]][p[2]].pc # "commit")
       => /\ tasks'[p[1]][p[2]].pc = "done"
          /\ Len(samples') = Len(samples) + 1
          /\ LET r == samples'[Len(samples')]
             IN /\ r.host_id \in HostIds(hostsTable, hosts[p[2]].name)
                /\ r.cyc = TaskOf(p).cyc
                /\ r.ts \in Nat /\ r.ts = TaskOf(p).L.ts
                /\ NullMetrics(r)
          /\ disks' = disks /\ extras' = extras]_vars

C4_Witness ==
  \E p \in TaskIds, j \in 1..Len(samples) :
    /\ TaskOf(p).pc = "done" /\ TaskOf(p).e.type = "RetryError"
    /\ hosts[p[2]].os = "linux"
    /\ samples[j].cyc = TaskOf(p).cyc
    /\ samples[j].host_id \in HostIds(hostsTable, hosts[p[2]].name)
    /\ NullMetrics(samples[j])

\* C5: after a failure at any stage of a host's pipeline, the samples row the
\* pipeline commits has every metric field other than latency_ms null, and
\* latency_ms is the probe result.
C5_FailureCommitsNullMetrics ==
  [][\A p \in TaskIds :
       (/\ current = Step(p[1], p[2])
        /\ TaskOf(p).pc = "commit"
        /\ TaskOf(p).e # NoException
        /\ Len(samples') = Len(samples) + 1)
       => LET r == samples'[Len(samples')]
          IN NullMetrics(r) /\ r.latency_ms = TaskOf(p).L.latency]_vars

\* C6: one call of SSHClient.run makes at most 2 attempts, waits only after a
\* failed first attempt, and when both attempts fail the error that reaches
\* poll_once is the error of the last attempt.
C6_TwoAttemptsLastErrorSurfaces ==
  \A p \in TaskIds :
    LET t == TaskOf(p)
    IN /\ t.att <= 2
       /\ t.pc = "wait" => (t.att = 1 /\ t.last_err # "")
       /\ (t.pc = "ssh" /\ t.att = 1) => t.last_err # ""
       /\ (t.pc = "commit" /\ t.att = 2 /\ t.last_err # "") => t.e.type = t.last_err

RfWakeups == Cardinality({ k \in 1..Len(ready) : ready[k].k = "step" /\ ready[k].i = 0 })
             + Cardinality(timers)

\* C7: poll cycles never overlap: every pipeline in flight belongs to the latest
\* fan-out, a fan-out after the first happens only when run_forever was woken from
\* its sleep and no pipeline is in flight, and at most one wake-up of run_forever
\* is pending.
C7_CyclesNeverOverlap ==
  [][/\ \A p \in TaskIds : Live(tasks'[p[1]][p[2]]) => tasks'[p[1]][p[2]].cyc = cycle'
     /\ RfWakeups' <= 1
     /\ cycle' # cycle =>
          /\ \A p \in TaskIds : ~Live(TaskOf(p))
          /\ cycle >= 1 => \E d \in Drivers : rf[d].pc = "woken" /\ Scheduled(Step(d, 0))]_vars

C7_Witness ==
  /\ cycle = 2
  /\ \E j \in 1..Len(samples) : samples[j].cyc = 1
  /\ \E p \in TaskIds : Live(TaskOf(p)) /\ TaskOf(p).cyc = 2

\* C8: run_forever is past the gather of a cycle (sleeping, woken, or ended) only
\* when the pipeline of every host has finished.
C8_FanInBarrier ==
  \A d \in Drivers :
    rf[d].pc \in {"sleep", "woken", "failed"} =>
      \A i \in 1..Len(tasks[d]) : ~Live(tasks[d][i])

C8_Witness ==
  \E d \in Drivers :
    /\ rf[d].pc = "sleep"
    /\ Len(tasks[d]) = 2
    /\ tasks[d][1].pc = "done" /\ tasks[d][1].e.type = "RetryError"
    /\ tasks[d][2].pc = "done" /\ tasks[d][2].e = NoException

\* C9: the poller has no terminal state: the run_forever task never ends.
C9_NoTerminalState == \A d \in Drivers : rf[d].pc # "failed"

UniqueNames(table) ==
  \A j \in 1..Len(table), k \in 1..Len(table) : table[j].name = table[k].name => j = k

\* C10: registration is idempotent: every step leaves the existing rows of hosts
\* as they are, ids included, and each name occurs at most once in hosts.
C10_RegistrationIdempotent ==
  [][/\ UniqueNames(hostsTable')
     /\ Len(hostsTable') >= Len(hostsTable)
     /\ \A k \in 1..Len(hostsTable) : hostsTable'[k] = hostsTable[k]]_vars

\* A second start lists a name twice, one of them registered by the first
\* start with another address
C10_Witness ==
  /\ starts = 2
  /\ Len(hosts) = 2 /\ hosts[1].name = hosts[2].name
  /\ \E k \in 1..Len(hostsTable) :
       hostsTable[k].name = hosts[1].name /\ hostsTable[k].ip # hosts[1].ip

\* ---------------------------------------------------------------------------
\* The read API: each handler reads the committed tables

\* WHERE host_id=:hid, in rowid order
RowsOfHost(table, hid) == SelectSeq(table, LAMBDA r : r.host_id = hid)

\* ORDER BY ts DESC LIMIT 1 served by the (host_id, ts) index scanned backwards:
\* the row of greatest ts, the last inserted among equal ts
OrderByTsDescLimit1(rows) ==
  rows[CHOOSE i \in 1..Len(rows) :
         \A j \in 1..Len(rows) : rows[j].ts < rows[i].ts \/ (rows[j].ts = rows[i].ts /\ j <= i)]

\* ORDER BY ts ASC served by the (host_id, ts) index: ascending ts, rowid order among
\* equal ts
RECURSIVE OrderByTsAsc(_)
OrderByTsAsc(rows) ==
  IF Len(rows) = 0 THEN <<>>
  ELSE LET r == rows[Len(rows)]
           sorted == OrderByTsAsc(SubSeq(rows, 1, Len(rows) - 1))
           k == Cardinality({ i \in 1..Len(sorted) : sorted[i].ts <= r.ts })
       IN SubSeq(sorted, 1, k) \o <<r>> \o SubSeq(sorted, k + 1, Len(sorted))

\* Lines 435 and 449: the columns of samples a response carries
SampleColumns(r) ==
  [ts |-> r.ts, cpu |-> r.cpu, mem_total |-> r.mem_total, mem_avail |-> r.mem_avail,
   uptime |-> r.uptime, latency_ms |-> r.latency_ms,
   net_rx_kbps |-> r.net_rx_kbps, net_tx_kbps |-> r.net_tx_kbps]

\* Line 439: the columns of disks in a series
DiskSeriesColumns(r) ==
  [ts |-> r.ts, device |-> r.device, used_percent |-> r.used_percent,
   size_bytes |-> r.size_bytes, free_bytes |-> r.free_bytes, mount |-> r.mount]

\* Line 456: the columns of disks in the latest snapshot
DiskColumns(r) ==
  [device |-> r.device, used_percent |-> r.used_percent,
   size_bytes |-> r.size_bytes, free_bytes |-> r.free_bytes, mount |-> r.mount]

\* ORDER BY h.name: the rank of each name of the configurations
NameOrder == <<"db-1", "web-1", "web-2", "win-1", "win-2">>
NameRank(name) == CHOOSE k \in 1..Len(NameOrder) : NameOrder[k] = name

\* Lines 421-429: the hosts by name, each with the ts of its newest sample or null
api_hosts(store) ==
  LET n == Len(store.hosts)
      at(k) == CHOOSE j \in 1..n :
                 Cardinality({ i \in 1..n : NameRank(store.hosts[i].name)
                                             < NameRank(store.hosts[j].name) }) = k - 1
      last_ts(hid) == LET rows == RowsOfHost(store.samples, hid)
                      IN IF Len(rows) = 0 THEN None ELSE Num(OrderByTsDescLimit1(rows).ts)
  IN [k \in 1..n |->
        LET h == store.hosts[at(k)]
        IN [id |-> h.id, name |-> h.name, ip |-> h.ip, os |-> h.os, last_ts |-> last_ts(h.id)]]

\* The range test of series, were it "ts > :t"
AfterCutoff(ts, t) == ts > t

\* Lines 436 and 440: "ts >= :t"
FromCutoff(ts, t) == ts >= t

\* Lines 431-443: the samples and the disk rows of one host from t_from on, by ts
api_series(store, host_id, t_from) ==
  LET s == SelectSeq(RowsOfHost(store.samples, host_id), LAMBDA r : FromCutoff(r.ts, t_from))
      d == SelectSeq(RowsOfHost(store.disks, host_id), LAMBDA r : FromCutoff(r.ts, t_from))
      ss == OrderByTsAsc(s)
      ds == OrderByTsAsc(d)
  IN [samples |-> [k \in 1..Len(ss) |-> SampleColumns(ss[k])],
      disks |-> [k \in 1..Len(ds) |-> DiskSeriesColumns(ds[k])]]

\* The disk rows of the latest snapshot, were they selected by the ts of the newest sample
DisksAtSampleTs(store, host_id) ==
  LET rows == RowsOfHost(store.disks, host_id)
      srows == RowsOfHost(store.samples, host_id)
      at == IF Len(srows) = 0 THEN <<>>
            ELSE SelectSeq(rows, LAMBDA r : r.ts = OrderByTsDescLimit1(srows).ts)
  IN [k \in 1..Len(at) |-> DiskColumns(at[k])]

\* Lines 455-458: ts=(SELECT MAX(ts) FROM disks WHERE host_id=:hid)
DisksAtMaxTs(store, host_id) ==
  LET rows == RowsOfHost(store.disks, host_id)
      at == IF Len(rows) = 0 THEN <<>>
            ELSE SelectSeq(rows, LAMBDA r : r.ts = OrderByTsDescLimit1(rows).ts)
  IN [k \in 1..Len(at) |-> DiskColumns(at[k])]

\* The payload returned as stored, without json.loads
NoDecode(ex) == ex

\* Line 459: json.loads(ex) if ex else {}
DecodeExtras(ex) == IF ~Truthy(ex) THEN EmptyDict ELSE json_loads(ex.v).v

\* Lines 445-460: the newest sample, the newest extras payload decoded, and the disk
\* rows of the newest disk ts, of one host
api_latest(store, host_id) ==
  LET srows == RowsOfHost(store.samples, host_id)
      erows == RowsOfHost(store.extras, host_id)
      ex == IF Len(erows) = 0 THEN None ELSE Str(OrderByTsDescLimit1(erows).payload)
  IN [last |-> IF Len(srows) = 0 THEN None ELSE SampleColumns(OrderByTsDescLimit1(srows)),
      extras |-> DecodeExtras(ex),
      disks |-> DisksAtMaxTs(store, host_id)]

\* The host ids a client may ask for: the registered ones and one that is not
HostIdsAsked == { hostsTable[k].id : k \in 1..Len(hostsTable) } \cup {nextHostId}

\* The cutoffs a client may ask for about a host: at and next to every ts of its samples
Cutoffs(hid) ==
  LET own == { j \in 1..Len(samples) : samples[j].host_id = hid }
  IN IF own = {} THEN {0}
     ELSE { samples[j].ts : j \in own } \cup { samples[j].ts + 1 : j \in own }

\* The row of hosts registered for a name
HostRow(name) == hostsTable[CHOOSE k \in 1..Len(hostsTable) : hostsTable[k].name = name]

\* The entry of a name in the response of api_hosts
HostEntry(name) ==
  LET r == api_hosts(db) IN r[CHOOSE k \in 1..Len(r) : r[k].name = name]

RowsWritten(hid) ==
  Len(RowsOfHost(samples, hid)) + Len(RowsOfHost(disks, hid)) + Len(RowsOfHost(extras, hid))

\* C11: with a Linux host and a Windows host that has its WinRM profile, once the
\* first cycle has finished api_hosts lists both, the Linux host with a last-seen
\* ts and the Windows host with none, and the Windows host has no row in samples,
\* disks or extras.
C11_WindowsNoOpLinuxSeen ==
  \A a \in 1..Len(hosts), b \in 1..Len(hosts) :
    (/\ hosts[a].os = "linux"
     /\ hosts[b].os = "windows" /\ hosts[b].winrm
     /\ CycleDone(1)) =>
       /\ Len(api_hosts(db)) = 2
       /\ HostEntry(hosts[a].name).last_ts # None
       /\ HostEntry(hosts[b].name).last_ts = None
       /\ RowsWritten(HostRow(hosts[b].name).id) = 0

\* The pipeline that holds the processor
RunningTask == { p \in TaskIds : current = Step(p[1], p[2]) }

\* Every pipeline has called tcp_ping at most once, and once when it has finished
\* or passed line 344
ProbedOnce ==
  \A p \in TaskIds :
    /\ TaskOf(p).probes <= 1
    /\ TaskOf(p).pc \in {"pending", "probe"} <=> TaskOf(p).probes = 0
    /\ TaskOf(p).L.latency \in tcp_ping_results

\* C12: every pipeline runs the latency probe exactly once, whatever the backend
\* does; the outcome is a duration or none; and the Sample a pipeline commits
\* carries that outcome as latency_ms, whether the backend succeeded or failed.
C12_LatencyProbedOnceAndCommitted ==
  [][/\ ProbedOnce /\ ProbedOnce'
     /\ \A p \in RunningTask :
          (TaskOf(p).pc = "commit" /\ Len(samples') > Len(samples)) =>
             /\ Len(samples') = Len(samples) + 1
             /\ samples'[Len(samples')].latency_ms = TaskOf(p).L.latency]_vars

\* A failed backend with a measured latency and a successful one with none
C12_Witness ==
  \E j \in 1..Len(samples), k \in 1..Len(samples) :
    /\ NullMetrics(samples[j]) /\ samples[j].latency_ms = Num(PingMs)
    /\ ~NullMetrics(samples[k]) /\ samples[k].latency_ms = None

\* The rows of a table written for host hid in cycle c
RowsOfCycle(table, hid, c) ==
  { j \in 1..Len(table) : table[j].host_id = hid /\ table[j].cyc = c }

\* A row of disks or extras has a row of samples with the same (host_id, ts)
HasSample(r) ==
  \E k \in 1..Len(samples) : samples[k].host_id = r.host_id /\ samples[k].ts = r.ts

\* C13: every row of disks and of extras has a row of samples with the same
\* (host_id, ts); the rows of one host in one cycle share one ts; and one host has
\* at most one Sample and at most one ExtrasSnapshot per cycle.
C13_RowsBelongToOneSamplePerCycle ==
  /\ \A j \in 1..Len(disks) : HasSample(disks[j])
  /\ \A j \in 1..Len(extras) : HasSample(extras[j])
  /\ \A k \in 1..Len(hostsTable), c \in 1..cycle :
       LET hid == hostsTable[k].id
       IN /\ Cardinality(RowsOfCycle(samples, hid, c)) <= 1
          /\ Cardinality(RowsOfCycle(extras, hid, c)) <= 1
          /\ \A j \in RowsOfCycle(samples, hid, c) :
               /\ \A i \in RowsOfCycle(disks, hid, c) : disks[i].ts = samples[j].ts
               /\ \A i \in RowsOfCycle(extras, hid, c) : extras[i].ts = samples[j].ts

\* The rows of greatest ts among the rows of host hid in a table
NewestOf(table, hid) ==
  { j \in 1..Len(table) :
      /\ table[j].host_id = hid
      /\ \A k \in 1..Len(table) : table[k].host_id = hid => table[k].ts <= table[j].ts }

\* The response r carries one of the newest samples of the host, or null without samples
LatestSampleIsNewest(r, hid) ==
  IF NewestOf(samples, hid) = {} THEN r.last = None
  ELSE \E j \in NewestOf(samples, hid) : r.last = SampleColumns(samples[j])

\* The disk rows of the response r are the rows of disks numbered in D
DisksAre(r, D) ==
  /\ Len(r.disks) = Cardinality(D)
  /\ \A i \in 1..Len(r.disks) : \E j \in D : r.disks[i] = DiskColumns(disks[j])
  /\ \A j \in D : \E i \in 1..Len(r.disks) : r.disks[i] = DiskColumns(disks[j])

FromOf(table, hid, t) ==
  { j \in 1..Len(table) : table[j].host_id = hid /\ table[j].ts >= t }

\* A list of a series holds the rows cols, given by row number, and nothing else
SeriesIs(list, cols) ==
  /\ Len(list) = Cardinality(DOMAIN cols)
  /\ \A i \in 1..Len(list) : \E j \in DOMAIN cols : list[i] = cols[j]
  /\ \A j \in DOMAIN cols : \E i \in 1..Len(list) : list[i] = cols[j]

\* The response r to series(hid, t) holds exactly the host's rows with ts >= t
SeriesExact(r, hid, t) ==
  /\ SeriesIs(r.samples, [j \in FromOf(samples, hid, t) |-> SampleColumns(samples[j])])
  /\ SeriesIs(r.disks, [j \in FromOf(disks, hid, t) |-> DiskSeriesColumns(disks[j])])

StrictlyAscending(list) == \A i \in 1..Len(list) - 1 : list[i].ts < list[i + 1].ts
Ascending(list) == \A i \in 1..Len(list) - 1 : list[i].ts <= list[i + 1].ts

\* C15 as stated: api_series returns exactly the host's samples and disk rows
\* with ts >= fromTs, each list in strictly ascending ts.
C15_SeriesExactStrictlyAscending ==
  \A hid \in HostIdsAsked : \A t \in Cutoffs(hid) :
    LET r == api_series(db, hid, t)
    IN /\ SeriesExact(r, hid, t)
       /\ StrictlyAscending(r.samples)
       /\ StrictlyAscending(r.disks)

\* C15 amended: api_series returns exactly the host's samples and disk rows with
\* ts >= fromTs, each list in ascending ts where rows of equal ts are adjacent.
C15_SeriesExactAscending ==
  \A hid \in HostIdsAsked : \A t \in Cutoffs(hid) :
    LET r == api_series(db, hid, t)
    IN /\ SeriesExact(r, hid, t)
       /\ Ascending(r.samples)
       /\ Ascending(r.disks)

\* A series that leaves out an older sample, starts at a sample of the cutoff ts,
\* and holds disk rows
C15_Witness ==
  \E hid \in HostIdsAsked : \E t \in Cutoffs(hid) :
    LET r == api_series(db, hid, t)
    IN /\ \E j \in 1..Len(samples) : samples[j].host_id = hid /\ samples[j].ts < t
       /\ Len(r.samples) > 0
       /\ r.samples[1].ts = t
       /\ Len(r.disks) > 0

\* The extras rows of host hid, by row number
ExtrasOf(hid) == { j \in 1..Len(extras) : extras[j].host_id = hid }

\* C16 as stated: api_latest returns extras structurally equal to the object E that
\* the host's last cycle to store an extras row parsed and committed.
C16_ExtrasOfLastStoringCycle ==
  \A hid \in HostIdsAsked :
    \A j \in ExtrasOf(hid) :
      (\A k \in ExtrasOf(hid) : k <= j) => api_latest(db, hid).extras = extras[j].obj

\* C16 amended: api_latest returns extras structurally equal to the object E parsed
\* and committed by the cycle whose extras row has a ts greater than every other
\* extras row of the host, and the empty object for a host without extras rows.
C16_ExtrasOfGreatestTs ==
  \A hid \in HostIdsAsked :
    /\ ExtrasOf(hid) = {} => api_latest(db, hid).extras = EmptyDict
    /\ \A j \in ExtrasOf(hid) :
         (\A k \in ExtrasOf(hid) \ {j} : extras[k].ts < extras[j].ts)
            => api_latest(db, hid).extras = extras[j].obj

\* A later cycle stored another object at a smaller ts, and the empty object came back
C16_Witness ==
  \E hid \in HostIdsAsked :
    \E j \in ExtrasOf(hid), k \in ExtrasOf(hid) :
      /\ j < k /\ extras[k].ts < extras[j].ts
      /\ extras[j].obj = EmptyDict /\ extras[k].obj # EmptyDict
      /\ api_latest(db, hid).extras = EmptyDict

\* The backend returned an output to the pipeline (line 349 did not raise)
GotOutput(t) == t.att >= 1 /\ t.last_err = ""

CoreFields == {"cpu_percent", "mem_total_bytes", "mem_available_bytes", "uptime_seconds"}

\* A field of an object is missing, or float() / int() accepts it
Coercible(o, key) == key \in DOMAIN o.v => Coerce(o.v[key]).ok

\* The number a field gives: its coerced value, 0 when it is missing
FieldOrZero(o, key) == IF key \in DOMAIN o.v THEN Coerce(o.v[key]).v ELSE Num(0)

\* A JSON object whose fields read by lines 352-361 are missing or of the contract's type
ParseWellTyped(d) ==
  /\ d.t = "obj"
  /\ \A k \in CoreFields : Coercible(d, k)
  /\ "extras" \in DOMAIN d.v =>
       /\ d.v["extras"].t = "obj"
       /\ "net" \in DOMAIN d.v["extras"].v =>
            LET net == d.v["extras"].v["net"]
            IN /\ net.t = "obj"
               /\ Coercible(net, "total_rx_kbps") /\ Coercible(net, "total_tx_kbps")

\* The disks field is missing, or a list of objects with numbers of the contract's type
DisksWellTyped(d) ==
  "disks" \in DOMAIN d.v =>
    /\ d.v["disks"].t = "list"
    /\ \A k \in 1..Len(d.v["disks"].v) :
         LET e == d.v["disks"].v[k]
         IN /\ e.t = "obj"
            /\ Coercible(e, "used_percent") /\ Coercible(e, "size_bytes")
            /\ Coercible(e, "free_bytes")

NumberOfDisks(d) == IF "disks" \in DOMAIN d.v THEN Len(d.v["disks"].v) ELSE 0

\* extras.net of a payload is absent
NetAbsent(d) == "extras" \notin DOMAIN d.v \/ "net" \notin DOMAIN d.v["extras"].v

\* extras.net of a payload is absent or an empty object
NetAbsentOrEmpty(d) == NetAbsent(d) \/ ~Truthy(d.v["extras"].v["net"])

\* The step of a pipeline that commits payload d writes one Sample with the
\* fields of d, 0 for the missing core metrics and null net totals when noNet,
\* one disk row for each entry of disks, and one extras row
CommitsPayload(p, d, noNet) ==
  LET t == TaskOf(p)
      row == samples'[Len(samples')]
      net == d.v["extras"].v["net"]
  IN /\ t.e = NoException
     /\ tasks'[p[1]][p[2]].pc = "done"
     /\ Len(samples') = Len(samples) + 1
     /\ row.cpu = FieldOrZero(d, "cpu_percent")
     /\ row.mem_total = FieldOrZero(d, "mem_total_bytes")
     /\ row.mem_avail = FieldOrZero(d, "mem_available_bytes")
     /\ row.uptime = FieldOrZero(d, "uptime_seconds")
     /\ row.net_rx_kbps = IF noNet THEN None ELSE FieldOrZero(net, "total_rx_kbps")
     /\ row.net_tx_kbps = IF noNet THEN None ELSE FieldOrZero(net, "total_tx_kbps")
     /\ Len(disks') = Len(disks) + NumberOfDisks(d)
     /\ Len(extras') = Len(extras) + 1
     /\ extras'[Len(extras')].ts = row.ts

\* The pipelines about to run their commit with an output of the backend
CommittingOutput == { p \in RunningTask : TaskOf(p).pc = "commit" /\ GotOutput(TaskOf(p)) }

C18_FailedCommitRollsBack ==
  [][\A p \in RunningTask :
       (TaskOf(p).pc = "commit" /\ tasks'[p[1]][p[2]].pc = "raised") =>
          /\ samples' = samples /\ disks' = disks /\ extras' = extras
          /\ hostsTable' = hostsTable]_vars

\* A transaction failed on its second disk entry, after the Sample and one disk row
\* were inserted, in a store that held rows of an earlier cycle
C18_Witness ==
  \E p \in TaskIds :
    /\ TaskOf(p).pc = "raised" /\ TaskOf(p).cyc = 2
    /\ Len(samples) > 0 /\ Len(disks) > 0
    /\ \A j \in 1..Len(samples) : samples[j].cyc = 1
    /\ \A j \in 1..Len(disks) : disks[j].cyc = 1

\* Lines 314-326 left the host without a connection profile matching its os
NoProfile(host) == ~host.ssh /\ ~host.winrm

\* The host has the WinRM profile of its os
WinrmProfile(host) == host.os = "windows" /\ host.winrm

InProgress(t) == t.pc \in {"probe", "ssh", "wait", "parse", "commit"}

\* At most one pipeline is in progress, and a pipeline has started only when the
\* pipelines of the hosts before it in self.hosts have finished
OneAtATimeInOrder ==
  /\ Cardinality({ p \in TaskIds : InProgress(TaskOf(p)) }) <= 1
  /\ \A p \in TaskIds, q \in TaskIds :
       (p[1] = q[1] /\ p[2] < q[2] /\ TaskOf(q).pc # "pending") => ~Live(TaskOf(p))

\* C20: within a cycle the pipelines run one at a time, each to completion, in
\* registry order: never are two pipelines in progress, a pipeline starts only
\* after the pipelines of the earlier hosts have finished, and every commit is
\* made while the earlier hosts' pipelines are finished and the later ones have
\* not started.
C20_PipelinesRunOneAtATimeInOrder ==
  [][/\ OneAtATimeInOrder /\ OneAtATimeInOrder'
     /\ (samples' # samples \/ disks' # disks \/ extras' # extras) =>
          \E p \in RunningTask :
            /\ TaskOf(p).pc = "commit"
            /\ \A q \in TaskIds :
                 /\ q[2] < p[2] => ~Live(TaskOf(q))
                 /\ q[2] > p[2] => TaskOf(q).pc = "pending"]_vars

\* The first pipeline sits in the delay between its two attempts while the second
\* has not started
C20_Witness ==
  \E p \in TaskIds, q \in TaskIds :
    /\ p[2] = 1 /\ q[2] = 2
    /\ TaskOf(p).pc = "wait" /\ TaskOf(q).pc = "pending"

====
